---------------------------- MODULE Spec2Model ----------------------------
(***************************************************************************)
(* A model of go-typed-errors: the classified error value (Error), its     *)
(* capability checks, its rendering to an HTTP response, and the retry     *)
(* driver DoWithRetries.                                                   *)
(*                                                                         *)
(* A Go interface value of type error is a record whose field "type" is    *)
(* its dynamic type: "nil" (the nil error), "Error" (this library's        *)
(* struct) or "other" (any other implementation of error).  A value of     *)
(* type interface{} (the field Data) is a record tagged with its dynamic   *)
(* type in field t.                                                        *)
(***************************************************************************)
EXTENDS Integers, Sequences, FiniteSets, TLC

VARIABLES
    pc,          \* per goroutine: where it stands in DoWithRetries
    conf,        \* per goroutine: the RetryConfig of its current call
    numRetries,  \* per goroutine: the loop variable of its current call
    err,         \* per goroutine: the local variable err of its current call
    result,      \* per goroutine: the value its last call returned
    heap,        \* the backoff.Backoff objects, by address
    trace,       \* per goroutine: what its current call did, in order
    lastSleep,   \* per goroutine: the duration of its call's latest sleep
    asked,       \* per goroutine: what the options of its current call asked for
    e,           \* the error handed to ToHTTPResponse
    w,           \* the http.ResponseWriter: the writes made to it, in order
    ret,         \* what the last ToHTTPResponse call returned
    made,        \* the constructor call that returned e
    verdict,     \* the latest capability check of e and what it returned
    twin         \* the error constructed last after e, and its constructor call

vars ==
    <<pc, conf, numRetries, err, result, heap, trace, lastSleep, asked, e, w, ret,
      made, verdict, twin>>

retryVars ==
    <<pc, conf, numRetries, err, result, heap, trace, lastSleep, asked>>

httpVars == <<e, w, ret>>

errVars == <<made, verdict, twin>>

---------------------------------------------------------------------------
(* Values of type interface{} and their fmt.Sprint form.                   *)

StrData(s) == [t |-> "string", s |-> s, n |-> 0]

IntData(n) == [t |-> "int", s |-> "", n |-> n]

NilData == [t |-> "nil", s |-> "", n |-> 0]

\* fmt.Sprint of one operand
Sprint(d) ==
    CASE d.t = "string" -> d.s
      [] d.t = "int"    -> ToString(d.n)
      [] OTHER          -> "<nil>"

---------------------------------------------------------------------------
(* The struct Error and the error values.                                  *)

FlagNames ==
    {"IsAuthErr", "IsUnauthorizedErr", "IsForbiddenErr", "IsClErr",
     "IsNotFoundErr", "IsNotImplementedErr", "IsRetryableErr",
     "IsConflictErr", "IsPreconditionFailedErr"}

\* The zero value of the struct Error, as an error value.
ZeroError ==
    [type |-> "Error",
     IsAuthErr |-> FALSE, IsUnauthorizedErr |-> FALSE, IsForbiddenErr |-> FALSE,
     IsClErr |-> FALSE, IsNotFoundErr |-> FALSE, IsNotImplementedErr |-> FALSE,
     IsRetryableErr |-> FALSE, IsConflictErr |-> FALSE,
     IsPreconditionFailedErr |-> FALSE,
     Data |-> NilData, HttpMsg |-> ""]

\* The nil error.
NilErr == [ZeroError EXCEPT !.type = "nil"]

\* An error value of another type (errors.New(msg), io.EOF, ...): it has no
\* field of the struct Error; only its message is kept, in Data.
OtherErr(msg) == [ZeroError EXCEPT !.type = "other", !.Data = StrData(msg)]

\* The struct literal Error{f1: true, ..., Data: data, HttpMsg: httpMsg}
ErrorLit(set, data, httpMsg) ==
    [type |-> "Error",
     IsAuthErr |-> "IsAuthErr" \in set,
     IsUnauthorizedErr |-> "IsUnauthorizedErr" \in set,
     IsForbiddenErr |-> "IsForbiddenErr" \in set,
     IsClErr |-> "IsClErr" \in set,
     IsNotFoundErr |-> "IsNotFoundErr" \in set,
     IsNotImplementedErr |-> "IsNotImplementedErr" \in set,
     IsRetryableErr |-> "IsRetryableErr" \in set,
     IsConflictErr |-> "IsConflictErr" \in set,
     IsPreconditionFailedErr |-> "IsPreconditionFailedErr" \in set,
     Data |-> data, HttpMsg |-> httpMsg]

\* The flags set in an error value.
FlagsOf(x) == {f \in FlagNames : x[f]}

\* func (e Error) Error() string; for another type, its own message.
ErrorString(x) ==
    CASE x.type = "Error" -> Sprint(x.Data)
      [] x.type = "other" -> x.Data.s
      [] OTHER            -> "<nil>"

\* The empty operand list of a formatted call.
NoArg == [t |-> "none", s |-> "", n |-> 0]

\* fmt.Sprintf(format, a...) for a format given as its text: the text alone
\* when the operand list is empty, the text followed by one %v when there is
\* one operand.  An operand that is an error is printed by its Error(), any
\* other operand as fmt.Sprint prints it.
Sprintf(text, a) ==
    IF a = NoArg THEN text
    ELSE IF "type" \in DOMAIN a THEN text \o ErrorString(a)
    ELSE text \o Sprint(a)

\* func New(data interface{}) Error
New(data) == ErrorLit({}, data, "")

\* func Newf(format string, a ...interface{}) Error
Newf(text, a) == New(StrData(Sprintf(text, a)))

\* func NewRetryable(data interface{}) Error
NewRetryable(data) == ErrorLit({"IsRetryableErr"}, data, "")

\* func NewClient(data interface{}) Error
NewClient(data) == ErrorLit({"IsClErr"}, data, "")

\* func NewNotFound(data interface{}) Error
NewNotFound(data) == ErrorLit({"IsNotFoundErr"}, data, "")

\* func NewForbidden(data interface{}) Error
NewForbidden(data) == ErrorLit({"IsAuthErr", "IsForbiddenErr"}, data, "")

\* func NewUnauthorized(data interface{}) Error
NewUnauthorized(data) == ErrorLit({"IsAuthErr", "IsUnauthorizedErr"}, data, "")

\* func NewAuth(data interface{}) Error
NewAuth(data) == ErrorLit({"IsAuthErr"}, data, "")

\* func NewConflict(data interface{}) Error
NewConflict(data) == ErrorLit({"IsConflictErr"}, data, "")

\* A variant of NewPreconditionFailed: the field Data is not set.
NewPreconditionFailedWithoutData(data) ==
    ErrorLit({"IsPreconditionFailedErr"}, NilData, "")

\* func NewPreconditionFailed(data interface{}) Error
NewPreconditionFailed(data) == ErrorLit({"IsPreconditionFailedErr"}, data, "")

\* func NewNotImplemented() Error: it takes no message.
NewNotImplemented ==
    ErrorLit({"IsNotImplementedErr"}, StrData("not implemented"), "")

\* The constructors that take a transport message: each is one struct
\* literal.
\* func NewWithHttp(httpMsg string, data interface{}) Error
NewWithHttp(httpMsg, data) == ErrorLit({}, data, httpMsg)

\* func NewClientWithHttp(httpMsg string, data interface{}) Error
NewClientWithHttp(httpMsg, data) == ErrorLit({"IsClErr"}, data, httpMsg)

\* func NewNotImplementedWithHttp(httpMsg string, data interface{}) Error
NewNotImplementedWithHttp(httpMsg, data) ==
    ErrorLit({"IsNotImplementedErr"}, data, httpMsg)

\* func NewAuthWithHttp(httpMsg string, data interface{}) Error
NewAuthWithHttp(httpMsg, data) == ErrorLit({"IsAuthErr"}, data, httpMsg)

\* func NewForbiddentWithHttp(httpMsg string, data interface{}) Error
NewForbiddentWithHttp(httpMsg, data) ==
    ErrorLit({"IsForbiddenErr"}, data, httpMsg)

\* func NewUnauthorizedWithHttp(httpMsg string, data interface{}) Error
NewUnauthorizedWithHttp(httpMsg, data) ==
    ErrorLit({"IsUnauthorizedErr"}, data, httpMsg)

\* func NewNotFoundWithHttp(httpMsg string, data interface{}) Error
NewNotFoundWithHttp(httpMsg, data) ==
    ErrorLit({"IsNotFoundErr"}, data, httpMsg)

\* func NewRetryableWithHttp(httpMsg string, data interface{}) Error
NewRetryableWithHttp(httpMsg, data) ==
    ErrorLit({"IsRetryableErr"}, data, httpMsg)

\* func NewConflictWithHttp(httpMsg string, data interface{}) Error
NewConflictWithHttp(httpMsg, data) ==
    ErrorLit({"IsConflictErr"}, data, httpMsg)

\* func NewPreconditionFailedWithHttp(httpMsg string, data interface{}) Error
NewPreconditionFailedWithHttp(httpMsg, data) ==
    ErrorLit({"IsPreconditionFailedErr"}, data, httpMsg)

\* The formatted constructors: data := fmt.Sprintf(format, a...), then the
\* constructor named in the body.
\* func NewWithHttpf(httpMsg string, format string, a ...interface{}) Error
NewWithHttpf(httpMsg, text, a) ==
    NewWithHttp(httpMsg, StrData(Sprintf(text, a)))

\* func NewClientf(format string, a ...interface{}) Error
NewClientf(text, a) == NewClient(StrData(Sprintf(text, a)))

\* func NewClientWithHttpf(httpMsg string, format string, a ...interface{}) Error
NewClientWithHttpf(httpMsg, text, a) ==
    NewClientWithHttp(httpMsg, StrData(Sprintf(text, a)))

\* func NewNotImplementedf(format string, a ...interface{}) Error
NewNotImplementedf(text, a) ==
    ErrorLit({"IsNotImplementedErr"}, StrData(Sprintf(text, a)), "")

\* func NewNotImplementedWithHttpf(httpMsg string, format string, a ...interface{}) Error
NewNotImplementedWithHttpf(httpMsg, text, a) ==
    NewNotImplementedWithHttp(httpMsg, StrData(Sprintf(text, a)))

\* func NewAuthf(format string, a ...interface{}) Error
NewAuthf(text, a) == NewAuth(StrData(Sprintf(text, a)))

\* func NewAuthWithHttpf(httpMsg string, format string, a ...interface{}) Error
NewAuthWithHttpf(httpMsg, text, a) ==
    NewAuthWithHttp(httpMsg, StrData(Sprintf(text, a)))

\* func NewForbiddenf(format string, a ...interface{}) Error
NewForbiddenf(text, a) == NewForbidden(StrData(Sprintf(text, a)))

\* func NewForbiddentWithHttpf(httpMsg string, format string, a ...interface{}) Error
NewForbiddentWithHttpf(httpMsg, text, a) ==
    NewForbiddentWithHttp(httpMsg, StrData(Sprintf(text, a)))

\* func NewUnauthorizedf(format string, a ...interface{}) Error
NewUnauthorizedf(text, a) == NewUnauthorized(StrData(Sprintf(text, a)))

\* func NewUnauthorizedWithHttpf(httpMsg string, format string, a ...interface{}) Error
NewUnauthorizedWithHttpf(httpMsg, text, a) ==
    NewUnauthorizedWithHttp(httpMsg, StrData(Sprintf(text, a)))

\* func NewNotFoundf(format string, a ...interface{}) Error
NewNotFoundf(text, a) == NewNotFound(StrData(Sprintf(text, a)))

\* func NewNotFoundWithHttpf(httpMsg string, format string, a ...interface{}) Error
NewNotFoundWithHttpf(httpMsg, text, a) ==
    NewNotFoundWithHttp(httpMsg, StrData(Sprintf(text, a)))

\* func NewRetryablef(format string, a ...interface{}) Error
NewRetryablef(text, a) == NewRetryable(StrData(Sprintf(text, a)))

\* func NewRetryableWithHttpf(httpMsg string, format string, a ...interface{}) Error
NewRetryableWithHttpf(httpMsg, text, a) ==
    NewRetryableWithHttp(httpMsg, StrData(Sprintf(text, a)))

\* A variant of NewConflictf: New is called in place of NewConflict.
NewConflictfByNew(text, a) == New(StrData(Sprintf(text, a)))

\* func NewConflictf(format string, a ...interface{}) Error
NewConflictf(text, a) == NewConflict(StrData(Sprintf(text, a)))

\* func NewConflictWithHttpf(httpMsg string, format string, a ...interface{}) Error
NewConflictWithHttpf(httpMsg, text, a) ==
    NewConflictWithHttp(httpMsg, StrData(Sprintf(text, a)))

\* func NewPreconditionFailedf(format string, a ...interface{}) Error
NewPreconditionFailedf(text, a) ==
    NewPreconditionFailed(StrData(Sprintf(text, a)))

\* func NewPreconditionFailedWithHttpf(httpMsg string, format string, a ...interface{}) Error
NewPreconditionFailedWithHttpf(httpMsg, text, a) ==
    NewPreconditionFailedWithHttp(httpMsg, StrData(Sprintf(text, a)))

---------------------------------------------------------------------------
(* The methods of Error and the capability checks.                         *)

Client(x) == x.IsClErr

NotImplemented(x) == x.IsNotImplementedErr

\* A variant of Auth: only the flag IsAuthErr is looked at.
AuthFlagOnly(x) == x.IsAuthErr

Auth(x) == x.IsAuthErr \/ x.IsUnauthorizedErr \/ x.IsForbiddenErr

Unauthorized(x) == x.IsUnauthorizedErr

Forbidden(x) == x.IsForbiddenErr

NotFound(x) == x.IsNotFoundErr

Retryable(x) == x.IsRetryableErr

\* A variant of Conflict: the flag of the client errors is returned.
ConflictByClientFlag(x) == x.IsClErr

Conflict(x) == x.IsConflictErr

PreconditionFailed(x) == x.IsPreconditionFailedErr

\* errC, ok := err.(Error)
IsError(x) == x.type = "Error"

IsClientError(x) == IsError(x) /\ Client(x)

IsNotImplementedError(x) == IsError(x) /\ NotImplemented(x)

IsAuthError(x) == IsError(x) /\ Auth(x)

\* A variant of IsForbiddenError: the method Auth is called.
IsForbiddenErrorByAuth(x) == IsError(x) /\ Auth(x)

IsForbiddenError(x) == IsError(x) /\ Forbidden(x)

IsUnauthorizedError(x) == IsError(x) /\ Unauthorized(x)

IsNotFoundError(x) == IsError(x) /\ NotFound(x)

\* A variant of IsRetryableError: the flag is not looked at.
IsRetryableErrorOfAnyError(x) == IsError(x)

IsRetryableError(x) == IsError(x) /\ Retryable(x)

IsConflictError(x) == IsError(x) /\ Conflict(x)

IsPreconditionFailedError(x) == IsError(x) /\ PreconditionFailed(x)

\* Every check of AllErrCheck returns false for x.
NoCheckHolds(x) ==
    /\ ~IsClientError(x) /\ ~IsNotImplementedError(x) /\ ~IsAuthError(x)
    /\ ~IsForbiddenError(x) /\ ~IsUnauthorizedError(x) /\ ~IsNotFoundError(x)
    /\ ~IsRetryableError(x) /\ ~IsConflictError(x)
    /\ ~IsPreconditionFailedError(x)

---------------------------------------------------------------------------
(* The rendering of an error to an HTTP response.                          *)

\* The status codes of net/http the rendering uses.
StatusForbidden == 403

StatusUnauthorized == 401

StatusBadRequest == 400

StatusNotFound == 404

StatusNotImplemented == 501

StatusServiceUnavailable == 503

StatusConflict == 409

StatusPreconditionFailed == 412

\* The status ToHTTPResponse returns when it writes nothing.
NoStatus == -1

\* http.Error(w, msg, code): the status line is written with code, then msg
\* and a line feed as the body.
HttpError(sink, msg, code) ==
    Append(sink, [status |-> code, body |-> msg \o "\n"])

\* A variant of Respond: the call of http.Error is missing.
RespondWithoutWriting(sink, msg, code) ==
    [status |-> code, wrote |-> TRUE, w |-> sink]

\* http.Error(w, msg, code) followed by return code, true
Respond(sink, msg, code) ==
    [status |-> code, wrote |-> TRUE, w |-> HttpError(sink, msg, code)]

\* A variant of NoMapping: a response of status 500 is written first.
NoMappingWritesServerError(sink) ==
    [status |-> NoStatus, wrote |-> FALSE, w |-> HttpError(sink, "", 500)]

\* return -1, false
NoMapping(sink) == [status |-> NoStatus, wrote |-> FALSE, w |-> sink]

\* A variant of Msg: the payload is the message, whatever HttpMsg is.
MsgAlwaysPayload(x) == ErrorString(x)

\* msg := e.HttpMsg; if msg == "" { msg = e.Error() }
Msg(x) == IF x.HttpMsg = "" THEN ErrorString(x) ELSE x.HttpMsg

\* A variant of AuthStatus: Unauthorized is looked at first.
AuthStatusUnauthorizedFirst(x) ==
    IF x.IsUnauthorizedErr THEN StatusUnauthorized ELSE StatusForbidden

\* The status of an error of the auth family.
AuthStatus(x) ==
    IF x.IsForbiddenErr THEN StatusForbidden ELSE StatusUnauthorized

\* func (e Error) ToHTTPResponse(w http.ResponseWriter) (int, bool): what it
\* returns, and the writer after it.
Error_ToHTTPResponse(x, sink) ==
    LET msg == Msg(x) IN
    IF x.IsAuthErr \/ x.IsForbiddenErr \/ x.IsUnauthorizedErr
        THEN Respond(sink, msg, AuthStatus(x))
    ELSE IF x.IsClErr THEN Respond(sink, msg, StatusBadRequest)
    ELSE IF x.IsNotFoundErr THEN Respond(sink, msg, StatusNotFound)
    ELSE IF x.IsNotImplementedErr THEN Respond(sink, msg, StatusNotImplemented)
    ELSE IF x.IsRetryableErr THEN Respond(sink, msg, StatusServiceUnavailable)
    ELSE IF x.IsConflictErr THEN Respond(sink, msg, StatusConflict)
    ELSE IF x.IsPreconditionFailedErr
        THEN Respond(sink, msg, StatusPreconditionFailed)
    ELSE NoMapping(sink)

\* func (e ErrToHTTP) ToHTTPResponse(err error, w http.ResponseWriter) (int, bool)
ErrToHTTP_ToHTTPResponse(x, sink) ==
    IF IsError(x) THEN Error_ToHTTPResponse(x, sink)
    ELSE NoMapping(sink)

\* A call of ToHTTPResponse has returned.
Rendered == ret.status # 0

\* A variant of Receiver: the method has a pointer receiver and keeps the
\* message it renders in the field HttpMsg.
ReceiverKeepsMessage(x) ==
    [x EXCEPT !.HttpMsg = IF @ = "" THEN ErrorString(x) ELSE @]

\* func (e Error) ...: the receiver of every method of Error is a copy of
\* the caller's value x, and no method assigns to a field; this is the
\* caller's value after the call.
Receiver(x) == x

\* e.ToHTTPResponse(w), for e an Error.
RenderError ==
    /\ ~Rendered
    /\ IsError(e)
    /\ LET r == Error_ToHTTPResponse(e, w) IN
        /\ w' = r.w
        /\ ret' = [status |-> r.status, wrote |-> r.wrote]
    /\ e' = Receiver(e)
    /\ UNCHANGED <<retryVars, errVars>>

\* ErrToHTTP{}.ToHTTPResponse(e, w), for e any error value.
RenderErr ==
    /\ ~Rendered
    /\ LET r == ErrToHTTP_ToHTTPResponse(e, w) IN
        /\ w' = r.w
        /\ ret' = [status |-> r.status, wrote |-> r.wrote]
    /\ e' = IF IsError(e) THEN Receiver(e) ELSE e
    /\ UNCHANGED <<retryVars, errVars>>

---------------------------------------------------------------------------
(* The construction of an error and the capability checks of it.           *)

\* The kinds of error and, for each, the four variants of its constructor.
Kinds ==
    {"generic", "client", "not-implemented", "auth", "forbidden",
     "unauthorized", "not-found", "retryable", "conflict",
     "precondition-failed"}

Variants == {"plain", "formatted", "transport", "formatted+transport"}

\* A constructor call: the kind and the variant name the function, and the
\* other fields are its arguments, those the variant does not take being
\* left at their zero value.  NewNotImplemented has no parameter: for it,
\* data is the message the caller has and cannot pass.
Ctor(kind, variant, httpMsg, data, text, arg) ==
    [kind |-> kind, variant |-> variant, httpMsg |-> httpMsg, data |-> data,
     text |-> text, arg |-> arg]

\* No constructor was called.
NoCall == Ctor("none", "none", "", NilData, "", NoArg)

ByVariant(c, plain, formatted, transport, both) ==
    CASE c.variant = "plain"     -> plain
      [] c.variant = "formatted" -> formatted
      [] c.variant = "transport" -> transport
      [] OTHER                   -> both

\* The value the constructor call c returns.
Make(c) ==
    LET m == c.httpMsg
        d == c.data
        t == c.text
        a == c.arg
    IN
    CASE c.kind = "generic" ->
            ByVariant(c, New(d), Newf(t, a),
                      NewWithHttp(m, d), NewWithHttpf(m, t, a))
      [] c.kind = "client" ->
            ByVariant(c, NewClient(d), NewClientf(t, a),
                      NewClientWithHttp(m, d), NewClientWithHttpf(m, t, a))
      [] c.kind = "not-implemented" ->
            ByVariant(c, NewNotImplemented, NewNotImplementedf(t, a),
                      NewNotImplementedWithHttp(m, d),
                      NewNotImplementedWithHttpf(m, t, a))
      [] c.kind = "auth" ->
            ByVariant(c, NewAuth(d), NewAuthf(t, a),
                      NewAuthWithHttp(m, d), NewAuthWithHttpf(m, t, a))
      [] c.kind = "forbidden" ->
            ByVariant(c, NewForbidden(d), NewForbiddenf(t, a),
                      NewForbiddentWithHttp(m, d),
                      NewForbiddentWithHttpf(m, t, a))
      [] c.kind = "unauthorized" ->
            ByVariant(c, NewUnauthorized(d), NewUnauthorizedf(t, a),
                      NewUnauthorizedWithHttp(m, d),
                      NewUnauthorizedWithHttpf(m, t, a))
      [] c.kind = "not-found" ->
            ByVariant(c, NewNotFound(d), NewNotFoundf(t, a),
                      NewNotFoundWithHttp(m, d), NewNotFoundWithHttpf(m, t, a))
      [] c.kind = "retryable" ->
            ByVariant(c, NewRetryable(d), NewRetryablef(t, a),
                      NewRetryableWithHttp(m, d),
                      NewRetryableWithHttpf(m, t, a))
      [] c.kind = "conflict" ->
            ByVariant(c, NewConflict(d), NewConflictf(t, a),
                      NewConflictWithHttp(m, d), NewConflictWithHttpf(m, t, a))
      [] OTHER ->
            ByVariant(c, NewPreconditionFailed(d), NewPreconditionFailedf(t, a),
                      NewPreconditionFailedWithHttp(m, d),
                      NewPreconditionFailedWithHttpf(m, t, a))

\* No error was constructed after e.
NoTwin == [made |-> NoCall, e |-> NilErr, before |-> NoCall]

\* A variant of Fresh: the constructors fill in one Error of the package,
\* in which the flags of the errors made before stay set.
FreshKeepsEarlierFlags(x, prior) ==
    [f \in DOMAIN x |-> IF f \in FlagNames THEN x[f] \/ prior[f] ELSE x[f]]

\* return Error{...}: the value a constructor returns is the composite
\* literal x of its body, a new value in which every field that is not
\* named is zero, whatever the error prior made before it.
Fresh(x, prior) == x

\* No check was made.
NoVerdict == [check |-> "", ok |-> FALSE]

\* The code that detects a failure constructs its error: e := New...(...);
\* no check of the new value has been made.
Construct(c) ==
    /\ made = NoCall
    /\ e = NilErr
    /\ e' = Fresh(Make(c), twin.e)
    /\ made' = c
    /\ verdict' = NoVerdict
    /\ UNCHANGED <<w, ret, twin, retryVars>>

\* The code constructs one more error, while it holds e: e2 := New...(...).
\* Of the errors constructed after e, the latest is kept, with the call
\* that made the one before it.
ConstructAgain(c) ==
    /\ made # NoCall
    /\ twin' = [made |-> c,
                e |-> Fresh(Make(c), IF twin = NoTwin THEN e ELSE twin.e),
                before |-> twin.made]
    /\ UNCHANGED <<made, verdict, httpVars, retryVars>>

\* The capability checks of AllErrCheck, by the name of the method.
CheckNames ==
    {"IsClientError", "IsNotImplementedError", "IsAuthError",
     "IsForbiddenError", "IsUnauthorizedError", "IsNotFoundError",
     "IsRetryableError", "IsConflictError", "IsPreconditionFailedError"}

\* checker.<name>(x)
ApplyCheck(name, x) ==
    CASE name = "IsClientError"             -> IsClientError(x)
      [] name = "IsNotImplementedError"     -> IsNotImplementedError(x)
      [] name = "IsAuthError"               -> IsAuthError(x)
      [] name = "IsForbiddenError"          -> IsForbiddenError(x)
      [] name = "IsUnauthorizedError"       -> IsUnauthorizedError(x)
      [] name = "IsNotFoundError"           -> IsNotFoundError(x)
      [] name = "IsRetryableError"          -> IsRetryableError(x)
      [] name = "IsConflictError"           -> IsConflictError(x)
      [] OTHER                              -> IsPreconditionFailedError(x)

\* ok := checker.<name>(e): the argument is passed by value.
Check(name) ==
    /\ verdict' = [check |-> name, ok |-> ApplyCheck(name, e)]
    /\ UNCHANGED <<made, twin, httpVars, retryVars>>

---------------------------------------------------------------------------
(* The backoff object of github.com/jpillora/backoff, in whole seconds:     *)
(* exponential growth from Min by Factor, seeded by the attempt count,      *)
(* bounded by Max, and randomized when Jitter is set.                       *)

\* &backoff.Backoff{Min: 2 * time.Second, Max: 5 * time.Minute}
DefaultMin == 2

DefaultMax == 300

DefaultBackoff ==
    [Min |-> DefaultMin, Max |-> DefaultMax, Factor |-> 0, Jitter |-> FALSE,
     attempt |-> 0]

RECURSIVE Pow(_, _)
Pow(b, n) == IF n = 0 THEN 1 ELSE b * Pow(b, n - 1)

\* The growth factor in use: a Factor that was not set counts as 2.
FactorOf(b) == IF b.Factor <= 0 THEN 2 ELSE b.Factor

\* Min * Factor^attempt, before jitter and the cap.
Grown(b, attempt) == b.Min * Pow(FactorOf(b), attempt)

Capped(b, d) == IF d < b.Min THEN b.Min ELSE IF d > b.Max THEN b.Max ELSE d

\* The durations Backoff.ForAttempt may return: with jitter a random point
\* of [Min, Min * Factor^attempt), then the cap by Max; every whole number
\* of seconds between the capped ends is possible.
ForAttempt(b, attempt) ==
    IF b.Min >= b.Max THEN {b.Max}
    ELSE IF b.Jitter
         THEN LET top == IF Grown(b, attempt) > b.Min
                         THEN Grown(b, attempt) - 1 ELSE b.Min
              IN Capped(b, b.Min) .. Capped(b, top)
         ELSE {Capped(b, Grown(b, attempt))}

---------------------------------------------------------------------------
(* The retry driver.                                                       *)

Goroutines == {"g1", "g2"}

\* for numRetries := 0; numRetries < 5; numRetries++
MaxAttempts == 5

\* The implementations of IsRetryableErrChecker a caller may configure:
\* the library's RetryableErrCheck, two of the caller's own, and the nil
\* interface value.
DefaultChecker == "RetryableErrCheck"

NilChecker == "nil"

Checkers == {DefaultChecker, "AlwaysRetry", "RetryOther", NilChecker}

\* A variant of Classify: the negation of line 62 is missing, the answer
\* of the checker is taken the other way round.
ClassifyNegated(ch, x) ==
    CASE ch = DefaultChecker -> ~IsRetryableError(x)
      [] ch = "AlwaysRetry"  -> FALSE
      [] ch = "RetryOther"   -> x.type # "other"
      [] OTHER               -> TRUE

\* conf.checker.IsRetryableError(err), for a checker that is not nil
Classify(ch, x) ==
    CASE ch = DefaultChecker -> IsRetryableError(x)
      [] ch = "AlwaysRetry"  -> TRUE
      [] ch = "RetryOther"   -> x.type = "other"
      [] OTHER               -> FALSE

\* The values of type RetryOption the five option constructors return.
RetryWithMinBackoff(d) == [name |-> "Min", d |-> d, t |-> FALSE, ch |-> ""]

RetryWithMaxBackoff(d) == [name |-> "Max", d |-> d, t |-> FALSE, ch |-> ""]

RetryWithBackoffFactor(f) == [name |-> "Factor", d |-> f, t |-> FALSE, ch |-> ""]

RetryWithBackoffJitter(t) == [name |-> "Jitter", d |-> 0, t |-> t, ch |-> ""]

RetryWithRetryableErrChecker(ch) ==
    [name |-> "Checker", d |-> 0, t |-> FALSE, ch |-> ch]

\* A variant of ApplyOption: the closure of RetryWithMaxBackoff assigns to
\* b.backoff.Min.
ApplyOptionMaxSetsMin(o, c) ==
    CASE o.name = "Min"    -> [c EXCEPT !.backoff.Min = o.d]
      [] o.name = "Max"    -> [c EXCEPT !.backoff.Min = o.d]
      [] o.name = "Factor" -> [c EXCEPT !.backoff.Factor = o.d]
      [] o.name = "Jitter" -> [c EXCEPT !.backoff.Jitter = o.t]
      [] OTHER             -> [c EXCEPT !.checker = o.ch]

\* f(&conf): the configuration is the pair of the checker and the backoff
\* object conf.backoff points to.
ApplyOption(o, c) ==
    CASE o.name = "Min"    -> [c EXCEPT !.backoff.Min = o.d]
      [] o.name = "Max"    -> [c EXCEPT !.backoff.Max = o.d]
      [] o.name = "Factor" -> [c EXCEPT !.backoff.Factor = o.d]
      [] o.name = "Jitter" -> [c EXCEPT !.backoff.Jitter = o.t]
      [] OTHER             -> [c EXCEPT !.checker = o.ch]

\* A variant of ApplyOptions: the options are applied last to first.
RECURSIVE ApplyOptionsLastToFirst(_, _)
ApplyOptionsLastToFirst(os, c) ==
    IF os = <<>> THEN c
    ELSE ApplyOption(Head(os), ApplyOptionsLastToFirst(Tail(os), c))

\* for _, f := range opts { f(&conf) }
RECURSIVE ApplyOptions(_, _)
ApplyOptions(os, c) ==
    IF os = <<>> THEN c
    ELSE ApplyOptions(Tail(os), ApplyOption(Head(os), c))

\* What the option list os asks for, field by field: <<v>> when the last
\* option of the list that names the field gives it v, <<>> when no option
\* names the field.
LastOf(os, name) ==
    LET at == {i \in DOMAIN os : os[i].name = name} IN
    IF at = {} THEN <<>>
    ELSE LET i == CHOOSE j \in at : \A k \in at : k <= j IN
         <<IF name = "Jitter" THEN os[i].t
           ELSE IF name = "Checker" THEN os[i].ch ELSE os[i].d>>

\* The fields more than one option of the list os names.
NamedTwice(os) ==
    {os[i].name : i \in {j \in DOMAIN os : \E k \in DOMAIN os :
                                               k # j /\ os[k].name = os[j].name}}

Asked(os) ==
    [Min |-> LastOf(os, "Min"), Max |-> LastOf(os, "Max"),
     Factor |-> LastOf(os, "Factor"), Jitter |-> LastOf(os, "Jitter"),
     Checker |-> LastOf(os, "Checker"), twice |-> NamedTwice(os)]

\* conf := RetryConfig{backoff: &backoff.Backoff{...}, checker: &RetryableErrCheck{}}
DefaultConfig == [backoff |-> DefaultBackoff, checker |-> DefaultChecker]

\* A variant of NewBackoffAddr: one backoff object for all the calls.
SharedBackoffAddr(p) == "g1"

\* The address of the backoff object a call of goroutine p allocates: an
\* object of its own.
NewBackoffAddr(p) == p

\* A variant of LoopCond: numRetries <= 5.
LoopCondOffByOne(n) == n <= MaxAttempts

\* numRetries < 5
LoopCond(n) == n < MaxAttempts

\* A variant of NextRetry: the loop variable is not stepped.
NextRetryStuck(n) == n

\* numRetries++
NextRetry(n) == n + 1

\* A variant of Succeeded: the test of err == nil is missing.
SucceededNever(x) == FALSE

\* err == nil
Succeeded(x) == x = NilErr

\* A variant of ReturnErr: return New(err.Data).
ReturnErrRewrapped(x) == New(x.Data)

\* return err
ReturnErr(x) == x

\* A variant of AssignErr: only the first error is kept.
KeepFirstErr(old, out) == IF old = NilErr THEN out ELSE old

\* err = doer()
AssignErr(old, out) == out

\* A variant of TooManyRetries: return err.
TooManyRetriesReturnsLast(x) == x

\* A variant of TooManyRetries: the last error's flags are kept.
TooManyRetriesKeepsFlags(x) ==
    [x EXCEPT !.type = "Error",
              !.Data = StrData(Sprintf("too many retries: ", x))]

\* return Newf("too many retries: %v", err)
TooManyRetries(x) == Newf("too many retries: ", x)

\* The events of a call's trace.
Invoked(out) == [ev |-> "invoke", out |-> out]

Slept == [ev |-> "sleep", out |-> NilErr]

\* DoWithRetries(doer, opts...) up to the loop: lines 45 to 57.
Call(p, os) ==
    /\ pc[p] = "idle"
    /\ asked' = [asked EXCEPT ![p] = Asked(os)]
    /\ LET c == ApplyOptions(os, DefaultConfig) IN
        /\ heap' = [heap EXCEPT ![NewBackoffAddr(p)] = c.backoff]
        /\ conf' = [conf EXCEPT ![p] =
                       [backoff |-> NewBackoffAddr(p), checker |-> c.checker]]
    /\ numRetries' = [numRetries EXCEPT ![p] = 0]
    /\ err' = [err EXCEPT ![p] = NilErr]
    /\ result' = [result EXCEPT ![p] = NilErr]
    /\ trace' = [trace EXCEPT ![p] = <<>>]
    /\ lastSleep' = [lastSleep EXCEPT ![p] = 0]
    /\ pc' = [pc EXCEPT ![p] = "attempt"]
    /\ UNCHANGED <<httpVars, errVars>>

\* One invocation of the operation, which returns out, and the decision
\* taken on it: lines 58 to 64.
Attempt(p, out) ==
    /\ pc[p] = "attempt"
    /\ LET x == AssignErr(err[p], out) IN
        /\ err' = [err EXCEPT ![p] = x]
        /\ trace' = [trace EXCEPT ![p] = Append(@, Invoked(out))]
        /\ IF Succeeded(x)
           THEN /\ pc' = [pc EXCEPT ![p] = "done"]
                /\ result' = [result EXCEPT ![p] = NilErr]
           ELSE IF conf[p].checker = NilChecker
           THEN /\ pc' = [pc EXCEPT ![p] = "panic"]
                /\ UNCHANGED result
           ELSE IF ~Classify(conf[p].checker, x)
           THEN /\ pc' = [pc EXCEPT ![p] = "done"]
                /\ result' = [result EXCEPT ![p] = ReturnErr(x)]
           ELSE /\ pc' = [pc EXCEPT ![p] = "sleep"]
                /\ UNCHANGED result
    /\ UNCHANGED <<conf, numRetries, heap, lastSleep, asked, httpVars, errVars>>

\* time.Sleep(conf.backoff.Duration()), numRetries++ and the loop test;
\* when the loop ends, the return of line 68.
Sleep(p) ==
    /\ pc[p] = "sleep"
    /\ LET a == conf[p].backoff
           b == heap[a]
       IN \E d \in ForAttempt(b, b.attempt) :
            /\ heap' = [heap EXCEPT ![a].attempt = @ + 1]
            /\ lastSleep' = [lastSleep EXCEPT ![p] = d]
    /\ trace' = [trace EXCEPT ![p] = Append(@, Slept)]
    /\ numRetries' = [numRetries EXCEPT ![p] = NextRetry(@)]
    /\ IF LoopCond(NextRetry(numRetries[p]))
       THEN /\ pc' = [pc EXCEPT ![p] = "attempt"]
            /\ UNCHANGED result
       ELSE /\ pc' = [pc EXCEPT ![p] = "done"]
            /\ result' = [result EXCEPT ![p] = TooManyRetries(err[p])]
    /\ UNCHANGED <<conf, err, asked, httpVars, errVars>>

\* The call has returned: its frame (conf, numRetries, err) is gone; the
\* caller holds the result and may call again.
Return(p) ==
    /\ pc[p] = "done"
    /\ pc' = [pc EXCEPT ![p] = "idle"]
    /\ conf' = [conf EXCEPT ![p] = [backoff |-> p, checker |-> DefaultChecker]]
    /\ numRetries' = [numRetries EXCEPT ![p] = 0]
    /\ err' = [err EXCEPT ![p] = NilErr]
    /\ trace' = [trace EXCEPT ![p] = <<>>]
    /\ lastSleep' = [lastSleep EXCEPT ![p] = 0]
    /\ asked' = [asked EXCEPT ![p] = Asked(<<>>)]
    /\ UNCHANGED <<result, heap, httpVars, errVars>>

\* The caller takes the error its call of DoWithRetries returned as the
\* error e it goes on with.  When the call ran out of attempts, that error
\* was made by the call Newf("too many retries: %v", err) of line 68.
Handle(p) ==
    /\ pc[p] = "done"
    /\ result[p] # NilErr
    /\ e = NilErr
    /\ made = NoCall
    /\ e' = result[p]
    /\ made' = IF numRetries[p] = MaxAttempts
               THEN Ctor("generic", "formatted", "", NilData,
                         "too many retries: ", err[p])
               ELSE NoCall
    /\ UNCHANGED <<w, ret, verdict, twin, retryVars>>

---------------------------------------------------------------------------
(* The inputs: what an operation may return, and the option lists.         *)

MaxOpts == 2

\* The errors an invocation of the operation returns: none, a retryable
\* error, an error of two other flags whose payload is a number, and an
\* error of another type.
Outcomes ==
    {NilErr,
     NewRetryable(StrData("busy")),
     ErrorLit({"IsClErr", "IsNotFoundErr"}, IntData(7), ""),
     OtherErr("EOF")}

\* The options a caller passes: each backoff field set to a value that is
\* not its default, and each checker that is not the default one.
OptionValues ==
    {RetryWithMinBackoff(1), RetryWithMaxBackoff(4), RetryWithBackoffFactor(3),
     RetryWithBackoffJitter(TRUE)}
    \cup {RetryWithRetryableErrChecker(ch) : ch \in Checkers \ {DefaultChecker}}

RECURSIVE SeqsUpTo(_, _)
SeqsUpTo(S, n) ==
    IF n = 0 THEN {<<>>}
    ELSE LET shorter == SeqsUpTo(S, n - 1) IN
         shorter \cup {Append(q, x) : q \in shorter, x \in S}

OptLists == SeqsUpTo(OptionValues, MaxOpts)

\* The inputs of the runs with two calls at a time.
ConcOutcomes ==
    {NilErr, NewRetryable(StrData("busy")), NewNotFound(StrData("gone"))}

ConcOptLists ==
    {<<>>,
     <<RetryWithRetryableErrChecker("AlwaysRetry")>>,
     <<RetryWithMinBackoff(1), RetryWithBackoffFactor(3)>>,
     <<RetryWithBackoffJitter(TRUE), RetryWithMaxBackoff(4)>>}

\* The option lists of the runs that are checked for termination.
FairOptLists ==
    {<<>>,
     <<RetryWithRetryableErrChecker("AlwaysRetry")>>,
     <<RetryWithRetryableErrChecker(NilChecker)>>,
     <<RetryWithBackoffJitter(TRUE), RetryWithMaxBackoff(4)>>}

\* The errors handed to ToHTTPResponse: every combination of the nine
\* flags, with payloads of two types and with and without an HTTP message;
\* and, for ErrToHTTP, the nil error and an error of another type.
HTTPErrors ==
    {ErrorLit(F, d, m) : F \in SUBSET FlagNames,
                         d \in {StrData("boom"), StrData(""), IntData(7)},
                         m \in {"", "oops"}}

HTTPInputs == HTTPErrors \cup {NilErr, OtherErr("EOF")}

\* The arguments of the constructor calls: payloads of two types, the empty
\* message included; formats with and without text, with no operand and
\* with an operand that is a string, a number or an error; transport
\* messages, the empty one included.
Payloads == {StrData("boom"), StrData(""), IntData(7)}

Texts == {"", "id "}

Args == {NoArg, StrData("x"), IntData(7), OtherErr("EOF")}

HttpMsgs == {"", "oops"}

\* The calls of the forty constructors with these arguments.
CtorCalls ==
    UNION {
        {Ctor(k, "plain", "", d, "", NoArg) : d \in Payloads}
        \cup {Ctor(k, "formatted", "", NilData, t, a) : t \in Texts, a \in Args}
        \cup {Ctor(k, "transport", m, d, "", NoArg) :
                  m \in HttpMsgs, d \in Payloads}
        \cup {Ctor(k, "formatted+transport", m, NilData, t, a) :
                  m \in HttpMsgs, t \in Texts, a \in Args}
        : k \in Kinds}

\* The constructor calls and the option lists of the runs that follow one
\* error through checks, rendering and retries.
LifeCalls ==
    {Ctor("retryable", "plain", "", StrData("busy"), "", NoArg),
     Ctor("forbidden", "transport", "oops", IntData(7), "", NoArg),
     Ctor("generic", "formatted", "", NilData, "id ", StrData("x")),
     Ctor("client", "formatted+transport", "", NilData, "id ", IntData(7))}

LifeOptLists == {<<>>, <<RetryWithRetryableErrChecker("AlwaysRetry")>>}

\* The constructor calls of the runs that construct several errors.
TwinCalls ==
    LifeCalls
    \cup {Ctor("not-implemented", "plain", "", StrData("boom"), "", NoArg),
          Ctor("unauthorized", "formatted", "", NilData, "", OtherErr("EOF"))}

\* What the operation returns in the runs where the error a call returned
\* is handled: no error, an error whose only flag is IsRetryableErr, and a
\* retryable error that is a not-found error too.
ChainOutcomes ==
    {NilErr,
     NewRetryable(StrData("busy")),
     ErrorLit({"IsRetryableErr", "IsNotFoundErr"}, IntData(7), "")}

---------------------------------------------------------------------------
(* The specifications.                                                     *)

\* No call of DoWithRetries is under way.
InitRetry ==
    /\ pc = [p \in Goroutines |-> "idle"]
    /\ conf = [p \in Goroutines |-> [backoff |-> p, checker |-> DefaultChecker]]
    /\ numRetries = [p \in Goroutines |-> 0]
    /\ err = [p \in Goroutines |-> NilErr]
    /\ result = [p \in Goroutines |-> NilErr]
    /\ heap = [a \in Goroutines |-> DefaultBackoff]
    /\ trace = [p \in Goroutines |-> <<>>]
    /\ lastSleep = [p \in Goroutines |-> 0]
    /\ asked = [p \in Goroutines |-> Asked(<<>>)]

\* No error is being rendered.
Init ==
    /\ InitRetry
    /\ e = NilErr
    /\ w = <<>>
    /\ ret = [status |-> 0, wrote |-> FALSE]
    /\ made = NoCall
    /\ verdict = NoVerdict
    /\ twin = NoTwin

\* A handler holds an error and a writer nothing was written to.
HTTPInit ==
    /\ InitRetry
    /\ e \in HTTPInputs
    /\ w = <<>>
    /\ ret = [status |-> 0, wrote |-> FALSE]
    /\ made = NoCall
    /\ verdict = NoVerdict
    /\ twin = NoTwin

\* One goroutine calls DoWithRetries, again and again.
Next ==
    \/ \E os \in OptLists : Call("g1", os)
    \/ \E out \in Outcomes : Attempt("g1", out)
    \/ Sleep("g1")
    \/ Return("g1")

Spec == Init /\ [][Next]_vars

\* One goroutine calls DoWithRetries again and again, and the steps of a
\* call are taken: an invocation that is due returns, a sleep that is due
\* ends.
FairNext ==
    \/ \E os \in FairOptLists : Call("g1", os)
    \/ \E out \in Outcomes : Attempt("g1", out)
    \/ Sleep("g1")
    \/ Return("g1")

FairSpec ==
    /\ Init
    /\ [][FairNext]_vars
    /\ WF_vars(\E out \in Outcomes : Attempt("g1", out))
    /\ WF_vars(Sleep("g1"))

\* Two goroutines call DoWithRetries, their steps interleaved in any order.
ConcNext ==
    \E p \in Goroutines :
        \/ \E os \in ConcOptLists : Call(p, os)
        \/ \E out \in ConcOutcomes : Attempt(p, out)
        \/ Sleep(p)
        \/ Return(p)

ConcSpec == Init /\ [][ConcNext]_vars

\* The handler renders its error, by the method of Error or by ErrToHTTP.
HTTPNext ==
    \/ RenderError
    \/ RenderErr

HTTPSpec == HTTPInit /\ [][HTTPNext]_vars

\* A caller holds an error value and asks the capability checks about it.
CheckNext == \E name \in CheckNames : Check(name)

CheckSpec == HTTPInit /\ [][CheckNext]_vars

\* An error is constructed, then checked and rendered.
CtorNext ==
    \/ \E c \in CtorCalls : Construct(c)
    \/ \E name \in CheckNames : Check(name)
    \/ RenderError
    \/ RenderErr

CtorSpec == Init /\ [][CtorNext]_vars

\* The life of one error: it is constructed, the operation handed to
\* DoWithRetries returns it (or succeeds), and it is checked and rendered,
\* in any order.
LifeNext ==
    \/ \E c \in LifeCalls : Construct(c)
    \/ \E name \in CheckNames : Check(name)
    \/ RenderError
    \/ RenderErr
    \/ \E os \in LifeOptLists : Call("g1", os)
    \/ \E out \in {NilErr, e} : Attempt("g1", out)
    \/ Sleep("g1")
    \/ Return("g1")

LifeSpec == Init /\ [][LifeNext]_vars

\* Errors are constructed one after the other, and the first is checked.
TwinNext ==
    \/ \E c \in TwinCalls : Construct(c)
    \/ \E c \in TwinCalls : ConstructAgain(c)
    \/ \E name \in CheckNames : Check(name)

TwinSpec == Init /\ [][TwinNext]_vars

\* A goroutine calls DoWithRetries, takes the error a call returned,
\* renders it, and returns it from the operation of its later calls.
ChainNext ==
    \/ \E os \in LifeOptLists : Call("g1", os)
    \/ \E out \in ChainOutcomes \cup {e} : Attempt("g1", out)
    \/ Sleep("g1")
    \/ Return("g1")
    \/ Handle("g1")
    \/ RenderError
    \/ RenderErr

ChainSpec == Init /\ [][ChainNext]_vars

---------------------------------------------------------------------------
(* What a call did, read off its trace.                                    *)

\* The positions of the invocations, and of the sleeps, in a trace.
InvokeAt(tr) == {i \in DOMAIN tr : tr[i].ev = "invoke"}

SleepAt(tr) == {i \in DOMAIN tr : tr[i].ev = "sleep"}

Invocations(p) == Cardinality(InvokeAt(trace[p]))

Sleeps(p) == Cardinality(SleepAt(trace[p]))

\* The call of p is over: it returned or it panicked.
Over(p) == pc[p] \in {"done", "panic"}

\* The configured predicate accepts x as retryable.
Accepts(p, x) == conf[p].checker # NilChecker /\ Classify(conf[p].checker, x)

\* Every invocation of the call so far failed with an error the predicate
\* accepts.
AllAccepted(p) ==
    \A i \in InvokeAt(trace[p]) :
        trace[p][i].out # NilErr /\ Accepts(p, trace[p][i].out)

\* The call of p ran out of attempts.
Exhausted(p) ==
    pc[p] = "done" /\ Invocations(p) = MaxAttempts /\ AllAccepted(p)

\* The outcome of the latest invocation of the call of p.
LastOutcome(p) ==
    LET i == CHOOSE j \in InvokeAt(trace[p]) :
                 \A k \in InvokeAt(trace[p]) : k <= j
    IN trace[p][i].out

---------------------------------------------------------------------------
(* The claims about one call of DoWithRetries.                             *)

\* C1: a call invokes the operation at most 5 times, and a call that is
\* over, whatever its options and the outcomes, invoked it at least once.
C1_AttemptsBetweenOneAndFive ==
    \A p \in Goroutines :
        /\ Invocations(p) <= 5
        /\ Over(p) => Invocations(p) >= 1

\* A call with options that returned after five invocations.
C1_Witness ==
    /\ pc["g1"] = "done"
    /\ Invocations("g1") = 5
    /\ asked["g1"].Checker # <<>>
    /\ asked["g1"].Jitter # <<>>

\* C2: once an invocation returns no error, after k failures the predicate
\* accepted, the call has returned nil, that invocation is the last event
\* of the call, and the call made k + 1 invocations and k sleeps, k <= 4.
C2_SuccessStopsAtOnce ==
    \A p \in Goroutines :
        \A i \in InvokeAt(trace[p]) :
            trace[p][i].out = NilErr =>
                LET k == Cardinality({j \in InvokeAt(trace[p]) :
                                         /\ j < i
                                         /\ trace[p][j].out # NilErr
                                         /\ Accepts(p, trace[p][j].out)})
                IN /\ pc[p] = "done"
                   /\ result[p] = NilErr
                   /\ i = Len(trace[p])
                   /\ k \in 0 .. 4
                   /\ Invocations(p) = k + 1
                   /\ Sleeps(p) = k

\* Four retryable failures, then success at the fifth invocation.
C2_Witness ==
    /\ pc["g1"] = "done"
    /\ result["g1"] = NilErr
    /\ Invocations("g1") = 5
    /\ Sleeps("g1") = 4
    /\ \A i \in InvokeAt(trace["g1"]) \ {Len(trace["g1"])} :
           IsRetryableError(trace["g1"][i].out)

\* C3: once an invocation returns an error the configured predicate does
\* not accept, the call has returned that very error, flags and payload
\* unchanged, and that invocation is the last event of the call: no
\* invocation and no sleep follows it.  At the first invocation, the call
\* made one invocation and no sleep.
C3_NonRetryableSurfacesUnchanged ==
    \A p \in Goroutines :
        \A i \in InvokeAt(trace[p]) :
            LET x == trace[p][i].out IN
            (x # NilErr /\ conf[p].checker # NilChecker
                /\ ~Classify(conf[p].checker, x)) =>
                /\ pc[p] = "done"
                /\ result[p] = x
                /\ FlagsOf(result[p]) = FlagsOf(x)
                /\ result[p].Data = x.Data
                /\ i = Len(trace[p])
                /\ i = 1 => (Invocations(p) = 1 /\ Sleeps(p) = 0)

\* An error with flags and a number as payload, not accepted by the default
\* predicate, returned at the fifth invocation.
C3_Witness ==
    /\ pc["g1"] = "done"
    /\ conf["g1"].checker = DefaultChecker
    /\ Invocations("g1") = 5
    /\ result["g1"] = ErrorLit({"IsClErr", "IsNotFoundErr"}, IntData(7), "")

\* C4: a call that ran out of attempts made exactly 5 invocations and
\* returns an error whose message is "too many retries: " followed by the
\* message of the error the fifth invocation returned.
C4_ExhaustionEmbedsLastError ==
    \A p \in Goroutines :
        Exhausted(p) =>
            /\ Invocations(p) = 5
            /\ IsError(result[p])
            /\ ErrorString(result[p]) =
                   "too many retries: " \o ErrorString(trace[p][9].out)

\* Exhaustion where the fifth error's message differs from that of every
\* earlier one.
C4_Witness ==
    /\ Exhausted("g1")
    /\ ErrorString(result["g1"]) = "too many retries: 7"
    /\ \A i \in InvokeAt(trace["g1"]) \ {9} :
           ErrorString(trace["g1"][i].out) # "7"

\* C5: the error of a call that ran out of attempts has no flag set, and
\* every capability check returns false for it.
C5_ExhaustionDropsFlags ==
    \A p \in Goroutines :
        Exhausted(p) =>
            /\ IsError(result[p])
            /\ FlagsOf(result[p]) = {}
            /\ NoCheckHolds(result[p])

\* Exhaustion by the default predicate: all five errors were retryable.
C5_Witness ==
    /\ Exhausted("g1")
    /\ conf["g1"].checker = DefaultChecker
    /\ \A i \in InvokeAt(trace["g1"]) : IsRetryableError(trace["g1"][i].out)

\* C6: a call sleeps only between attempts: in a call that has returned,
\* every sleep is followed by an invocation, and the sleeps are one fewer
\* than the invocations.
C6_SleepsOnlyBetweenAttempts ==
    \A p \in Goroutines :
        pc[p] = "done" =>
            /\ \A i \in SleepAt(trace[p]) :
                   i < Len(trace[p]) /\ trace[p][i + 1].ev = "invoke"
            /\ Sleeps(p) = Invocations(p) - 1

\* The checker the options of the call of p name, <<>> when none does.
CheckerAsked(p) == asked[p].Checker

\* What the predicate the caller configured says of x: with no checker
\* option, x is an Error whose IsRetryableErr is set; with one, what that
\* checker says.
SaysRetryable(p, x) ==
    IF CheckerAsked(p) = <<>>
    THEN x.type = "Error" /\ x.IsRetryableErr
    ELSE /\ CheckerAsked(p)[1] # NilChecker
         /\ Classify(CheckerAsked(p)[1], x)

\* C7: after a failed invocation the call goes on, with a sleep and, if
\* attempts remain, another invocation, exactly when the configured
\* predicate says the error is retryable.  With no checker option the
\* predicate is the Retryable flag of an Error, so the invocation that
\* returns an error of another type is the last one and that error is
\* returned; a checker given as an option decides alone.
C7_GoesOnIffRetryable ==
    \A p \in Goroutines :
        \A i \in InvokeAt(trace[p]) :
            LET x == trace[p][i].out
                n == Cardinality({j \in InvokeAt(trace[p]) : j <= i})
                goesOn == \/ i < Len(trace[p]) /\ trace[p][i + 1].ev = "sleep"
                          \/ i = Len(trace[p]) /\ pc[p] = "sleep"
            IN x # NilErr =>
                /\ goesOn <=> SaysRetryable(p, x)
                /\ (i + 1 \in SleepAt(trace[p]) /\ n < 5) =>
                       \/ i + 1 = Len(trace[p]) /\ pc[p] = "attempt"
                       \/ i + 1 < Len(trace[p]) /\ trace[p][i + 2].ev = "invoke"
                /\ (i + 1 \in SleepAt(trace[p]) /\ n = 5) =>
                       i + 1 = Len(trace[p]) /\ pc[p] = "done"
                /\ (CheckerAsked(p) = <<>> /\ x.type = "other") =>
                       /\ i = Len(trace[p])
                       /\ pc[p] = "done"
                       /\ result[p] = x

\* A checker given as an option decided against the flags: it went on after
\* an error of another type and stopped at a retryable Error.
C7_Witness ==
    /\ CheckerAsked("g1") = <<"RetryOther">>
    /\ Len(trace["g1"]) = 3
    /\ trace["g1"][1].out = OtherErr("EOF")
    /\ trace["g1"][2].ev = "sleep"
    /\ trace["g1"][3].out = NewRetryable(StrData("busy"))
    /\ pc["g1"] = "done"
    /\ result["g1"] = NewRetryable(StrData("busy"))

\* C8: every call ends: it never makes more than 5 invocations and 5
\* sleeps, and a call that is under way returns (or panics) as long as its
\* invocations and sleeps end.
C8_EveryCallEnds ==
    \A p \in Goroutines :
        /\ [](Len(trace[p]) <= 2 * MaxAttempts)
        /\ (pc[p] \in {"attempt", "sleep"}) ~> Over(p)

\* A call that went through the whole loop and returned.
C8_Witness ==
    /\ pc["g1"] = "done"
    /\ Len(trace["g1"]) = 2 * MaxAttempts
    /\ numRetries["g1"] = MaxAttempts

---------------------------------------------------------------------------
(* The claims about calls running at the same time.                        *)

\* The backoff a call's own options ask for, before any sleep.
OwnBackoff(p) ==
    [Min     |-> IF asked[p].Min = <<>> THEN DefaultMin ELSE asked[p].Min[1],
     Max     |-> IF asked[p].Max = <<>> THEN DefaultMax ELSE asked[p].Max[1],
     Factor  |-> IF asked[p].Factor = <<>> THEN 0 ELSE asked[p].Factor[1],
     Jitter  |-> IF asked[p].Jitter = <<>> THEN FALSE ELSE asked[p].Jitter[1],
     attempt |-> 0]

\* The state of the call of p is the one its own options and its own
\* operation's outcomes give: its attempt count, its backoff object and its
\* latest sleep follow from its own sleeps, the first sleep being the first
\* step of its backoff, and its result from its own latest outcome.
OwnStateOnly(p) ==
    pc[p] \in {"attempt", "sleep", "done"} =>
        /\ numRetries[p] = Sleeps(p)
        /\ heap[conf[p].backoff] = [OwnBackoff(p) EXCEPT !.attempt = Sleeps(p)]
        /\ Sleeps(p) >= 1 =>
               lastSleep[p] \in ForAttempt(OwnBackoff(p), Sleeps(p) - 1)
        /\ (Sleeps(p) = 1 /\ ~OwnBackoff(p).Jitter) =>
               lastSleep[p] = OwnBackoff(p).Min
        /\ pc[p] = "done" =>
               result[p] = IF Sleeps(p) = MaxAttempts
                           THEN TooManyRetries(LastOutcome(p))
                           ELSE LastOutcome(p)

\* A step that is not a step of p.
NotStepOf(p) == pc'[p] = pc[p] /\ trace'[p] = trace[p]

\* C9: calls do not interact: the state of each call follows from its own
\* options and outcomes alone, whatever the other call does meanwhile, and
\* no step of one call changes anything of the other, its backoff object
\* included.
C9_CallsDoNotInteract ==
    /\ [](\A p \in Goroutines : OwnStateOnly(p))
    /\ [][\A p \in Goroutines :
            NotStepOf(p) =>
                /\ conf'[p] = conf[p]
                /\ numRetries'[p] = numRetries[p]
                /\ err'[p] = err[p]
                /\ result'[p] = result[p]
                /\ lastSleep'[p] = lastSleep[p]
                /\ heap'[conf[p].backoff] = heap[conf[p].backoff]]_vars

\* Two calls under way at once with different options: one has slept three
\* times, the other once, at the first step of its own backoff.
C9_Witness ==
    /\ pc["g1"] = "attempt" /\ Sleeps("g1") = 3
    /\ asked["g1"].Min = <<>>
    /\ pc["g2"] = "attempt" /\ Sleeps("g2") = 1
    /\ asked["g2"].Min = <<1>>
    /\ lastSleep["g2"] = 1
    /\ lastSleep["g1"] = 8

---------------------------------------------------------------------------
(* The claims about the rendering to an HTTP response.                     *)

AuthFamily == {"IsAuthErr", "IsForbiddenErr", "IsUnauthorizedErr"}

\* The rules of the mapping, in their order: the flags that make a rule
\* match, and the status of the rule for the flags F.
RuleFlags ==
    <<AuthFamily, {"IsClErr"}, {"IsNotFoundErr"}, {"IsNotImplementedErr"},
      {"IsRetryableErr"}, {"IsConflictErr"}, {"IsPreconditionFailedErr"}>>

RuleStatus(i, F) ==
    IF i = 1 THEN (IF "IsForbiddenErr" \in F THEN 403 ELSE 401)
    ELSE <<0, 400, 404, 501, 503, 409, 412>>[i]

MatchingRules(F) == {i \in DOMAIN RuleFlags : RuleFlags[i] \cap F # {}}

FirstMatchingRule(F) ==
    CHOOSE i \in MatchingRules(F) : \A j \in MatchingRules(F) : i <= j

\* C10: for every combination of the nine flags that some rule matches,
\* ToHTTPResponse returns the status of the first matching rule, whatever
\* the payload and the HTTP message.
C10_StatusOfFirstMatchingRule ==
    (Rendered /\ IsError(e) /\ MatchingRules(FlagsOf(e)) # {}) =>
        ret.status = RuleStatus(FirstMatchingRule(FlagsOf(e)), FlagsOf(e))

\* Forbidden, Unauthorized and NotFound together give 403.
C10_Witness ==
    /\ Rendered
    /\ FlagsOf(e) = {"IsForbiddenErr", "IsUnauthorizedErr", "IsNotFoundErr"}
    /\ e.type = "Error"
    /\ ret.status = 403

\* C11: when all nine flags of the error are false, or the value given to
\* ErrToHTTP.ToHTTPResponse is not an Error, the call returns (-1, false)
\* and nothing is written to the writer.
C11_NoMappingWritesNothing ==
    (Rendered /\ (~IsError(e) \/ FlagsOf(e) = {})) =>
        /\ ret = [status |-> -1, wrote |-> FALSE]
        /\ w = <<>>

\* An Error without flags that has a payload and an HTTP message was
\* rendered.
C11_Witness ==
    /\ Rendered
    /\ IsError(e)
    /\ FlagsOf(e) = {}
    /\ e.HttpMsg = "oops"
    /\ e.Data = IntData(7)
    /\ ret.status = -1

\* C12: one call of ToHTTPResponse writes at most once; when a rule
\* matches it writes one response, one status with one body; the status
\* written is the status returned; and the flag returned is true exactly
\* when something was written.
C12_WritesAtMostOnce ==
    /\ Len(w) <= 1
    /\ Rendered =>
           /\ (IsError(e) /\ FlagsOf(e) # {}) => Len(w) = 1
           /\ ret.wrote <=> Len(w) = 1
           /\ Len(w) = 1 => w[1].status = ret.status

\* An error of three flags was rendered by one response of status 400.
C12_Witness ==
    /\ Rendered
    /\ FlagsOf(e) = {"IsClErr", "IsNotFoundErr", "IsConflictErr"}
    /\ Len(w) = 1
    /\ w[1].status = 400
    /\ ret = [status |-> 400, wrote |-> TRUE]

\* A constructor that takes a transport message returned e.
GivenHttpMsg == made.variant \in {"transport", "formatted+transport"}

\* The body that carries the message msg: http.Error ends it with a line
\* feed.
BodyOf(msg) == msg \o "\n"

\* C13, as stated: the body written is the transport message given at
\* construction when one was given, the empty one included, and the
\* stringified payload otherwise.
C13_BodyIsGivenTransportMessage ==
    (made # NoCall /\ Rendered /\ ret.wrote) =>
        w[1].body = BodyOf(IF GivenHttpMsg THEN made.httpMsg ELSE ErrorString(e))

\* C13, amended: the body written is the transport message given at
\* construction when one was given and it is not empty; it is the
\* stringified payload when none was given or the one given is empty.
C13_BodyIsNonEmptyTransportMessage ==
    (made # NoCall /\ Rendered /\ ret.wrote) =>
        w[1].body = BodyOf(IF GivenHttpMsg /\ made.httpMsg # ""
                           THEN made.httpMsg ELSE ErrorString(e))

\* An error constructed with the empty transport message was rendered: the
\* body is its payload.
C13_Witness ==
    /\ Rendered
    /\ made.kind = "client"
    /\ made.variant = "transport"
    /\ made.httpMsg = ""
    /\ made.data = StrData("boom")
    /\ ret.wrote
    /\ w[1].body = "boom\n"

---------------------------------------------------------------------------
(* The claims about the capability checks.                                 *)

\* The flag of each check of a single kind.
FlagOfCheck ==
    [IsClientError |-> "IsClErr", IsNotFoundError |-> "IsNotFoundErr",
     IsNotImplementedError |-> "IsNotImplementedErr",
     IsRetryableError |-> "IsRetryableErr", IsConflictError |-> "IsConflictErr",
     IsPreconditionFailedError |-> "IsPreconditionFailedErr",
     IsForbiddenError |-> "IsForbiddenErr",
     IsUnauthorizedError |-> "IsUnauthorizedErr"]

\* C14: a check of a single kind returns true exactly when the value is an
\* Error whose flag of that kind is set: false for a value that is not an
\* Error, and the same whatever the other flags, the payload and the HTTP
\* message are.
C14_SingleKindCheckIsItsFlag ==
    verdict.check \in DOMAIN FlagOfCheck =>
        verdict.ok = (/\ e.type = "Error"
                      /\ FlagOfCheck[verdict.check] \in FlagsOf(e))

\* IsForbiddenError returned false for an Error that has every flag but
\* IsForbiddenErr, the two other flags of the auth family included.
C14_Witness ==
    /\ verdict = [check |-> "IsForbiddenError", ok |-> FALSE]
    /\ e.type = "Error"
    /\ FlagsOf(e) = FlagNames \ {"IsForbiddenErr"}
    /\ e.HttpMsg = "oops"

\* C15: IsAuthError returns true exactly when the value is an Error that
\* has at least one of the flags IsAuthErr, IsUnauthorizedErr and
\* IsForbiddenErr set, for every combination of the three.
C15_AuthIsUnionOfThree ==
    verdict.check = "IsAuthError" =>
        verdict.ok = (e.type = "Error" /\ FlagsOf(e) \cap AuthFamily # {})

\* IsAuthError returned true for an Error whose only flag is
\* IsUnauthorizedErr.
C15_Witness ==
    /\ verdict = [check |-> "IsAuthError", ok |-> TRUE]
    /\ e.type = "Error"
    /\ FlagsOf(e) = {"IsUnauthorizedErr"}

---------------------------------------------------------------------------
(* The claims about the constructors.                                      *)

\* The flags the constructors of each kind are to set.
FlagsOfKind ==
    "generic" :> {}
    @@ "client" :> {"IsClErr"}
    @@ "not-implemented" :> {"IsNotImplementedErr"}
    @@ "auth" :> {"IsAuthErr"}
    @@ "forbidden" :> {"IsAuthErr", "IsForbiddenErr"}
    @@ "unauthorized" :> {"IsAuthErr", "IsUnauthorizedErr"}
    @@ "not-found" :> {"IsNotFoundErr"}
    @@ "retryable" :> {"IsRetryableErr"}
    @@ "conflict" :> {"IsConflictErr"}
    @@ "precondition-failed" :> {"IsPreconditionFailedErr"}

\* C16: a freshly constructed error has exactly the flags of the kind of
\* its constructor, for each of the four variants of every kind: none for
\* generic, IsAuthErr and IsForbiddenErr for forbidden, IsAuthErr and
\* IsUnauthorizedErr for unauthorized, the one flag of the kind otherwise.
C16_ExactlyTheFlagsOfTheKind ==
    made # NoCall => FlagsOf(e) = FlagsOfKind[made.kind]

\* The check Is<Kind>Error of each kind that has one.
CheckOfKind ==
    "client" :> "IsClientError"
    @@ "not-implemented" :> "IsNotImplementedError"
    @@ "auth" :> "IsAuthError"
    @@ "forbidden" :> "IsForbiddenError"
    @@ "unauthorized" :> "IsUnauthorizedError"
    @@ "not-found" :> "IsNotFoundError"
    @@ "retryable" :> "IsRetryableError"
    @@ "conflict" :> "IsConflictError"
    @@ "precondition-failed" :> "IsPreconditionFailedError"

\* C17: for every kind, the check of the kind returns true for an error
\* any of the four constructors of the kind returned, and every check
\* returns false for an error New, Newf (or the two other generic
\* constructors) returned, whatever the message.
C17_KindCheckHoldsOfItsConstructors ==
    (made # NoCall /\ verdict # NoVerdict) =>
        /\ (made.kind \in DOMAIN CheckOfKind
                /\ verdict.check = CheckOfKind[made.kind]) => verdict.ok
        /\ made.kind = "generic" => ~verdict.ok

\* IsForbiddenError returned true for an error made by the forbidden
\* constructor that takes a format and a transport message.
C17_Witness ==
    /\ made.kind = "forbidden"
    /\ made.variant = "formatted+transport"
    /\ made.arg = IntData(7)
    /\ verdict = [check |-> "IsForbiddenError", ok |-> TRUE]

\* C18, as stated: for the plain constructor of every kind and every
\* message, the empty one included, Error() of the result is the message.
C18_ErrorStringIsTheMessage ==
    (made.variant = "plain" /\ made.data.t = "string") =>
        ErrorString(e) = made.data.s

\* C18, amended: for the plain constructor of every kind but
\* not-implemented and every message, the empty one included, Error() of
\* the result is the message; NewNotImplemented takes no message and
\* Error() of its result is "not implemented".
C18_ErrorStringIsTheMessageWhereTaken ==
    made.variant = "plain" =>
        /\ (made.kind # "not-implemented" /\ made.data.t = "string") =>
               ErrorString(e) = made.data.s
        /\ made.kind = "not-implemented" =>
               ErrorString(e) = "not implemented"

\* NewPreconditionFailed("") was called: Error() of the result is empty.
C18_Witness ==
    /\ made.kind = "precondition-failed"
    /\ made.variant = "plain"
    /\ made.data = StrData("")
    /\ IsError(e)
    /\ ErrorString(e) = ""

\* The expansion of a format that is a text, followed by one %v when there
\* is an operand: a string as it is, a number in decimal, an error by its
\* message.
Expansion(text, a) ==
    CASE a = NoArg            -> text
      [] a = StrData("x")     -> text \o "x"
      [] a = IntData(7)       -> text \o "7"
      [] a = OtherErr("EOF")  -> text \o "EOF"

\* The flags of the error the plain constructor of a kind returns.
PlainFlags(kind) ==
    FlagsOf(Make(Ctor(kind, "plain", "", StrData("boom"), "", NoArg)))

\* C19: for every kind, the formatted constructor returns an error that
\* has the flags of the error the plain constructor of the kind returns and
\* whose Error() is the expansion of the format with the operands; the
\* constructor that takes a format and a transport message does so too and
\* stores the transport message as given.
C19_FormattedIsPlainOfExpansion ==
    made.variant \in {"formatted", "formatted+transport"} =>
        /\ FlagsOf(e) = PlainFlags(made.kind)
        /\ ErrorString(e) = Expansion(made.text, made.arg)
        /\ made.variant = "formatted+transport" => e.HttpMsg = made.httpMsg

---------------------------------------------------------------------------
(* The claim about the life of an error.                                   *)

\* C20: no operation changes an error it is given: after any sequence of
\* checks, renderings and calls of DoWithRetries whose operation returns
\* it, the error is the value its constructor returned, flags, payload and
\* HTTP message; and what DoWithRetries holds and returns is that value,
\* or the new error that reports the exhaustion.
C20_ErrorStaysAsConstructed ==
    made # NoCall =>
        /\ e = Make(made)
        /\ FlagsOf(e) = FlagsOf(Make(made))
        /\ e.Data = Make(made).Data
        /\ e.HttpMsg = Make(made).HttpMsg
        /\ err["g1"] \in {NilErr, e}
        /\ pc["g1"] = "done" =>
               result["g1"] \in {NilErr, e, Newf("too many retries: ", e)}

\* A retryable error was returned five times to DoWithRetries, checked and
\* rendered.
C20_Witness ==
    /\ made = Ctor("retryable", "plain", "", StrData("busy"), "", NoArg)
    /\ Exhausted("g1")
    /\ result["g1"] = New(StrData("too many retries: busy"))
    /\ verdict = [check |-> "IsRetryableError", ok |-> TRUE]
    /\ ret = [status |-> 503, wrote |-> TRUE]

---------------------------------------------------------------------------
(* More claims about one call of DoWithRetries.                            *)

\* C21: no operation of the library panics: whatever the option list, the
\* values RetryWithRetryableErrChecker accepts included, a call of
\* DoWithRetries never ends in a panic.
C21_NoCallPanics ==
    \A p \in Goroutines : pc[p] # "panic"

\* The invocations of the call of p whose error the predicate the caller
\* configured says is retryable.
AcceptedAt(p) ==
    {i \in InvokeAt(trace[p]) :
        trace[p][i].out # NilErr /\ SaysRetryable(p, trace[p][i].out)}

\* C24: in every call, every sleep comes right after an invocation whose
\* error the predicate accepted, every such invocation is followed at once
\* by a sleep, and so the sleeps are as many as these invocations; a call
\* that exhausts its 5 attempts sleeps 5 times, the last time after the
\* fifth invocation and before the "too many retries" error is returned.
C24_SleepsAreAcceptedFailures ==
    \A p \in Goroutines :
        LET tr == trace[p] IN
        /\ \A i \in SleepAt(tr) : i > 1 /\ (i - 1) \in AcceptedAt(p)
        /\ \A i \in AcceptedAt(p) :
               \/ i < Len(tr) /\ tr[i + 1].ev = "sleep"
               \/ i = Len(tr) /\ pc[p] = "sleep"
        /\ pc[p] # "sleep" => Sleeps(p) = Cardinality(AcceptedAt(p))
        /\ (pc[p] = "done" /\ Cardinality(AcceptedAt(p)) = 5) =>
               /\ Sleeps(p) = 5
               /\ Len(tr) = 10
               /\ tr[10].ev = "sleep"
               /\ result[p] =
                      New(StrData("too many retries: " \o ErrorString(tr[9].out)))

\* A call whose checker accepts the errors of another type only returned
\* after five such errors and five sleeps.
C24_Witness ==
    /\ pc["g1"] = "done"
    /\ CheckerAsked("g1") = <<"RetryOther">>
    /\ Sleeps("g1") = 5
    /\ trace["g1"][10].ev = "sleep"
    /\ result["g1"] = New(StrData("too many retries: EOF"))

\* C27: the options are applied in the order given to the default
\* configuration of the call: each field of the configuration of a call
\* under way is what the last option of the list that names the field
\* gives it, and its default when no option names it, whatever the earlier
\* options and the earlier calls.
C27_LaterOptionWins ==
    \A p \in Goroutines :
        pc[p] \in {"attempt", "sleep", "done", "panic"} =>
            LET b == heap[conf[p].backoff]
                a == asked[p]
            IN /\ b.Min = IF a.Min = <<>> THEN 2 ELSE a.Min[1]
               /\ b.Max = IF a.Max = <<>> THEN 300 ELSE a.Max[1]
               /\ b.Factor = IF a.Factor = <<>> THEN 0 ELSE a.Factor[1]
               /\ b.Jitter = IF a.Jitter = <<>> THEN FALSE ELSE a.Jitter[1]
               /\ conf[p].checker = IF a.Checker = <<>> THEN "RetryableErrCheck"
                                    ELSE a.Checker[1]

\* Two options of a call named the checker: the call has the one given
\* last, and the defaults of the backoff.
C27_Witness ==
    /\ pc["g1"] = "attempt"
    /\ asked["g1"].twice = {"Checker"}
    /\ asked["g1"].Checker = <<"RetryOther">>
    /\ conf["g1"].checker = "RetryOther"
    /\ heap["g1"].Min = 2

\* The bounds the caller gave to the backoff of the call of p are positive
\* and in order, and the growth factor is above 1 (a factor that was not
\* given counts as 2).
SoundBackoff(p) ==
    /\ OwnBackoff(p).Min > 0
    /\ OwnBackoff(p).Max > 0
    /\ OwnBackoff(p).Min <= OwnBackoff(p).Max
    /\ asked[p].Factor = <<>> \/ asked[p].Factor[1] > 1

\* C23: in a call whose minimum and maximum backoff are positive, minimum
\* <= maximum, and whose factor is above 1, every sleep lasts at least the
\* minimum and at most the maximum; with jitter off the first sleep lasts
\* the minimum and no sleep is shorter than the sleep before it.
C23_SleepsWithinBounds ==
    /\ [](\A p \in Goroutines :
            (SoundBackoff(p) /\ Sleeps(p) >= 1) =>
                /\ lastSleep[p] >= OwnBackoff(p).Min
                /\ lastSleep[p] <= OwnBackoff(p).Max
                /\ (Sleeps(p) = 1 /\ ~OwnBackoff(p).Jitter) =>
                       lastSleep[p] = OwnBackoff(p).Min)
    /\ [][\A p \in Goroutines :
            (/\ SoundBackoff(p)
             /\ ~OwnBackoff(p).Jitter
             /\ Sleeps(p) >= 1
             /\ trace'[p] = Append(trace[p], Slept)) =>
                lastSleep'[p] >= lastSleep[p]]_vars

\* A call with minimum 1 and maximum 4, jitter off, has slept 1, 2 and 4
\* seconds and then 4 seconds again.
C23_Witness ==
    /\ asked["g1"].Min = <<1>>
    /\ asked["g1"].Max = <<4>>
    /\ Sleeps("g1") = 4
    /\ lastSleep["g1"] = 4
    /\ heap["g1"].attempt = 4

---------------------------------------------------------------------------
(* The claims that relate the rendering, the checks and the retries.       *)

\* C25: for every Error, ToHTTPResponse returns wrote = true exactly when
\* at least one of the nine flags is set, which is exactly when at least
\* one check of AllErrCheck returns true for it.
C25_RenderedIffClassified ==
    (Rendered /\ IsError(e)) =>
        /\ ret.wrote <=> FlagsOf(e) # {}
        /\ FlagsOf(e) # {} <=> (\E name \in CheckNames : ApplyCheck(name, e))
        /\ ret.wrote <=> ~NoCheckHolds(e)

\* An Error whose only flag is IsConflictErr was rendered, and of the nine
\* checks IsConflictError alone returns true for it.
C25_Witness ==
    /\ Rendered
    /\ IsError(e)
    /\ FlagsOf(e) = {"IsConflictErr"}
    /\ ret.wrote
    /\ {name \in CheckNames : ApplyCheck(name, e)} = {"IsConflictError"}

\* The error e is the one a call of DoWithRetries returned on exhaustion.
FromExhaustion == made.text = "too many retries: " /\ made.kind = "generic"

\* C26: the error DoWithRetries returns on exhaustion, given to
\* ToHTTPResponse, yields (-1, false) and nothing is written, although each
\* of the five retryable errors behind it would have been rendered by
\* itself, with 503 when IsRetryableErr is its only flag; returned by the
\* operation of a later call of DoWithRetries with the default predicate,
\* it is not retried: that invocation is the last and the call returns it.
C26_ExhaustionErrorIsUnclassified ==
    /\ (FromExhaustion /\ Rendered) =>
           /\ ret = [status |-> -1, wrote |-> FALSE]
           /\ w = <<>>
           /\ IsRetryableError(made.arg) =>
                  /\ ErrToHTTP_ToHTTPResponse(made.arg, <<>>).wrote
                  /\ FlagsOf(made.arg) = {"IsRetryableErr"} =>
                         ErrToHTTP_ToHTTPResponse(made.arg, <<>>).status = 503
    /\ Exhausted("g1") =>
           \A i \in InvokeAt(trace["g1"]) :
               LET x == trace["g1"][i].out IN
               IsRetryableError(x) =>
                   /\ ErrToHTTP_ToHTTPResponse(x, <<>>).wrote
                   /\ FlagsOf(x) = {"IsRetryableErr"} =>
                          ErrToHTTP_ToHTTPResponse(x, <<>>).status = 503
    /\ (FromExhaustion /\ CheckerAsked("g1") = <<>>) =>
           \A i \in InvokeAt(trace["g1"]) :
               trace["g1"][i].out = e =>
                   /\ i = Len(trace["g1"])
                   /\ pc["g1"] = "done"
                   /\ result["g1"] = e

\* The error of an exhausted call was rendered, to no response, and then
\* returned by the second invocation of a later call with the default
\* predicate, which returned it.
C26_Witness ==
    /\ FromExhaustion
    /\ made.arg = NewRetryable(StrData("busy"))
    /\ Rendered
    /\ ret.status = -1
    /\ CheckerAsked("g1") = <<>>
    /\ Len(trace["g1"]) = 3
    /\ trace["g1"][3].out = e
    /\ pc["g1"] = "done"
    /\ result["g1"] = New(StrData("too many retries: busy"))

---------------------------------------------------------------------------
(* The claim about two constructions.                                      *)

===========================================================================
